---- MODULE Spec2Model ----
(***************************************************************************)
(* A model of the dynamic helper bridge of json-to-md:                      *)
(*   src/src/js_helpers.rs  DynamicHelperRegistry (QuickJS helpers, native  *)
(*                          plugins), is_builtin_js_function,               *)
(*                          serde_value_to_js                               *)
(*   src/src/main.rs        main, register_helpers, generate_notes          *)
(*   src/src/plugin.rs      HelperPlugin, PluginFactory                     *)
(***************************************************************************)
EXTENDS Integers, Sequences, FiniteSets, TLC

(***************************************************************************)
(* Bounds of the model.                                                     *)
(***************************************************************************)
\* longest array / object built from the leaf pool in the marshaller spec
MaxLen == 2
\* longest user script, in statements
MaxStmts == 2
\* longest parameter list of a helper call in a template
MaxArgs == 8
\* helper calls rendered by one thread before it stops
MaxCalls == 3
\* most calls of load_rust_plugin on one registry
MaxLoads == 3

\* items of the data of one generate_notes run
MaxItems == 3

(***************************************************************************)
(* serde_json::Value.  A Number is serde_json's N: PosInt(u64),             *)
(* NegInt(i64) or Float(f64).  Magnitudes are kept at their real width by   *)
(* writing them e * 2^63 + m with e in {0,1} and m a small integer, and     *)
(* h half units for a Float: the value is (-1)^neg * (e*2^63 + m + h/2).    *)
(***************************************************************************)
GNull == [g |-> "Null"]

GBool(b) == [g |-> "Bool", b |-> b]

GString(s) == [g |-> "String", s |-> s]

GArray(a) == [g |-> "Array", a |-> a]

GObject(o) == [g |-> "Object", o |-> o]

PosInt(e, m) == [g |-> "Number", k |-> "PosInt", neg |-> FALSE, e |-> e, m |-> m, h |-> 0]

NegInt(e, m) == [g |-> "Number", k |-> "NegInt", neg |-> TRUE, e |-> e, m |-> m, h |-> 0]

Float(neg, e, m, h) == [g |-> "Number", k |-> "Float", neg |-> neg, e |-> e, m |-> m, h |-> h]

\* Number::as_i64: PosInt(n) only when n <= i64::MAX = 2^63 - 1, NegInt always,
\* Float never.
as_i64(n) ==
    CASE n.k = "PosInt" -> IF n.e = 0 \/ n.m < 0
                           THEN [some |-> TRUE, neg |-> FALSE, e |-> n.e, m |-> n.m]
                           ELSE [some |-> FALSE]
      [] n.k = "NegInt" -> [some |-> TRUE, neg |-> TRUE, e |-> n.e, m |-> n.m]
      [] OTHER -> [some |-> FALSE]

\* spacing of the f64 values in [2^63, 2^64): 53 bits of mantissa
Ulp63 == 2^11

\* n as f64 for an integer 2^63 + m, m >= 0: round to nearest, ties to even
RoundUlp(m) ==
    LET q == m \div Ulp63
        r == m % Ulp63
    IN  IF 2 * r < Ulp63 THEN q * Ulp63
        ELSE IF 2 * r > Ulp63 THEN (q + 1) * Ulp63
        ELSE IF q % 2 = 0 THEN q * Ulp63 ELSE (q + 1) * Ulp63

\* Number::as_f64: total without arbitrary_precision; exact below 2^53
as_f64(n) ==
    CASE n.k = "Float" -> [some |-> TRUE, neg |-> n.neg, e |-> n.e, m |-> n.m, h |-> n.h]
      [] n.e = 1 /\ n.m >= 0 ->
            [some |-> TRUE, neg |-> n.neg, e |-> 1, m |-> RoundUlp(n.m), h |-> 0]
      [] OTHER -> [some |-> TRUE, neg |-> n.neg, e |-> n.e, m |-> n.m, h |-> 0]

(***************************************************************************)
(* rquickjs values.  An array is the sequence of its slots, a slot never    *)
(* written being a hole; an object is a function from its keys.             *)
(***************************************************************************)
JsUndefined == [t |-> "undefined"]

JsHole == [t |-> "hole"]

JsNull == [t |-> "null"]

JsBool(b) == [t |-> "bool", b |-> b]

JsInt(neg, e, m) == [t |-> "int", neg |-> neg, e |-> e, m |-> m]

JsFloat(neg, e, m, h) == [t |-> "float", neg |-> neg, e |-> e, m |-> m, h |-> h]

JsString(s) == [t |-> "string", s |-> s]

JsArray(a) == [t |-> "array", a |-> a]

JsObject(o) == [t |-> "object", o |-> o]

JsFunction(body) == [t |-> "function", body |-> body]

\* Array::set(i, v), i counted from 0: slots skipped over become holes
ArraySet(a, i, v) ==
    [j \in 1..(IF i + 1 > Len(a) THEN i + 1 ELSE Len(a)) |->
        IF j = i + 1 THEN v ELSE IF j <= Len(a) THEN a[j] ELSE JsHole]

\* Object::set(k, v)
ObjectSet(o, k, v) ==
    [x \in DOMAIN o \cup {k} |-> IF x = k THEN v ELSE o[x]]

EmptyObject == [x \in {} |-> JsNull]

JsOk(v) == [ok |-> TRUE, v |-> v]

JsErr(e) == [ok |-> FALSE, err |-> e]

\* the order serde_json's Map (a BTreeMap) iterates its keys in
KeyOrder == <<"a", "b", "c">>

RECURSIVE serde_value_to_js(_, _)
RECURSIVE SetItems(_, _, _, _)
RECURSIVE SetEntries(_, _, _, _)

\* the loop of Value::Array: an item that fails to convert is skipped and the
\* next one is still written at its own index
SetItems(bad, arr, i, js_arr) ==
    IF i > Len(arr) THEN js_arr
    ELSE LET r == serde_value_to_js(bad, arr[i])
         IN  SetItems(bad, arr, i + 1,
                      IF r.ok THEN ArraySet(js_arr, i - 1, r.v) ELSE js_arr)

\* the loop of Value::Object
SetEntries(bad, obj, i, js_obj) ==
    IF i > Len(KeyOrder) THEN js_obj
    ELSE LET k == KeyOrder[i]
         IN  IF k \notin DOMAIN obj THEN SetEntries(bad, obj, i + 1, js_obj)
             ELSE LET r == serde_value_to_js(bad, obj[k])
                  IN  SetEntries(bad, obj, i + 1,
                                 IF r.ok THEN ObjectSet(js_obj, k, r.v) ELSE js_obj)

\* serde_value_to_js(ctx, val).  `bad` is the context's part in it: the values
\* whose creation in the interpreter (into_js, Array::new, Object::new) fails.
serde_value_to_js(bad, val) ==
    IF val \in bad THEN JsErr("Error converting to js")
    ELSE CASE val.g = "Null" -> JsOk(JsNull)
           [] val.g = "Bool" -> JsOk(JsBool(val.b))
           [] val.g = "Number" ->
                LET i == as_i64(val)
                    f == as_f64(val)
                IN  IF i.some THEN JsOk(JsInt(i.neg, i.e, i.m))
                    ELSE IF f.some THEN JsOk(JsFloat(f.neg, f.e, f.m, f.h))
                    ELSE JsOk(JsNull)
           [] val.g = "String" -> JsOk(JsString(val.s))
           [] val.g = "Array" -> JsOk(JsArray(SetItems(bad, val.a, 1, <<>>)))
           [] OTHER -> JsOk(JsObject(SetEntries(bad, val.o, 1, EmptyObject)))

(***************************************************************************)
(* to_generic, the inverse direction of the Value Marshaller.  The source   *)
(* has no such function; this is the mapping the specification describes.   *)
(***************************************************************************)
RECURSIVE to_generic(_)
to_generic(js) ==
    CASE js.t = "null" -> GNull
      [] js.t = "bool" -> GBool(js.b)
      [] js.t = "int" -> IF js.neg THEN NegInt(js.e, js.m) ELSE PosInt(js.e, js.m)
      [] js.t = "float" -> Float(js.neg, js.e, js.m, js.h)
      [] js.t = "string" -> GString(js.s)
      [] js.t = "array" -> GArray([i \in 1..Len(js.a) |-> to_generic(js.a[i])])
      [] js.t = "object" -> GObject([k \in DOMAIN js.o |-> to_generic(js.o[k])])
      [] OTHER -> GNull

(***************************************************************************)
(* The interpreter's JSON.stringify, as far as the values above go.         *)
(***************************************************************************)
\* decimal digits of e * 2^63 + m (2^63 = 9223372036 854775808), |m| < 10^8
IntDigits(e, m) ==
    IF e = 0 THEN ToString(m) ELSE "9223372036" \o ToString(854775808 + m)

\* Number.prototype.toString of a double 2^63 + m: the shortest digits that
\* read back as the same double (15 significant digits if they do, else 16)
FloatDigits63(m) ==
    LET low == 854775808 + m
        c15 == ((low + 5000) \div 10000) * 10000
        c16 == ((low + 500) \div 1000) * 1000
        d15 == IF c15 >= low THEN c15 - low ELSE low - c15
    IN  "9223372036" \o ToString(IF 2 * d15 < Ulp63 THEN c15 ELSE c16)

NumberText(js) ==
    (IF js.neg THEN "-" ELSE "") \o
    (IF js.t = "int" THEN IntDigits(js.e, js.m)
     ELSE IF js.e = 1 THEN FloatDigits63(js.m)
     ELSE ToString(js.m) \o (IF js.h = 1 THEN ".5" ELSE ""))

\* values JSON.stringify has no text for
Unserializable(js) == js.t \in {"undefined", "hole", "function"}

RECURSIVE JsonText(_)
RECURSIVE JsonItems(_, _)
RECURSIVE JsonEntries(_, _, _)

\* array elements without a text are written null
JsonItems(a, i) ==
    IF i > Len(a) THEN ""
    ELSE (IF i > 1 THEN "," ELSE "") \o
         (IF Unserializable(a[i]) THEN "null" ELSE JsonText(a[i])) \o
         JsonItems(a, i + 1)

\* object entries without a text are left out
JsonEntries(o, i, first) ==
    IF i > Len(KeyOrder) THEN ""
    ELSE LET k == KeyOrder[i]
         IN  IF k \notin DOMAIN o \/ Unserializable(o[k])
             THEN JsonEntries(o, i + 1, first)
             ELSE (IF first THEN "" ELSE ",") \o "\"" \o k \o "\":" \o
                  JsonText(o[k]) \o JsonEntries(o, i + 1, FALSE)

JsonText(js) ==
    CASE js.t = "null" -> "null"
      [] js.t = "bool" -> IF js.b THEN "true" ELSE "false"
      [] js.t \in {"int", "float"} -> NumberText(js)
      [] js.t = "string" -> "\"" \o js.s \o "\""
      [] js.t = "array" -> "[" \o JsonItems(js.a, 1) \o "]"
      [] OTHER -> "{" \o JsonEntries(js.o, 1, TRUE) \o "}"

\* JSON.stringify(v): a string, or undefined for a value without a text
JsonStringify(js) ==
    IF Unserializable(js) THEN JsUndefined ELSE JsString(JsonText(js))

(***************************************************************************)
(* The interpreter's global object: its own string keys in property order   *)
(* and their values.                                                        *)
(***************************************************************************)
GlobalHas(g, k) == k \in DOMAIN g.val

GlobalGet(g, k) == IF GlobalHas(g, k) THEN g.val[k] ELSE JsUndefined

GlobalSet(g, k, v) ==
    [keys |-> IF GlobalHas(g, k) THEN g.keys ELSE Append(g.keys, k),
     val |-> ObjectSet(g.val, k, v)]

GlobalDelete(g, k) ==
    [keys |-> SelectSeq(g.keys, LAMBDA x : x # k),
     val |-> [x \in DOMAIN g.val \ {k} |-> g.val[x]]]

RECURSIVE GlobalSetAll(_, _, _)
GlobalSetAll(g, entries, i) ==
    IF i > Len(entries) THEN g
    ELSE GlobalSetAll(GlobalSet(g, entries[i][1], entries[i][2]), entries, i + 1)

\* JsContext::full(&rt): the intrinsics the model keeps of the base language
FullContext ==
    GlobalSetAll([keys |-> <<>>, val |-> EmptyObject],
                 << <<"Object", JsFunction("native")>>,
                    <<"parseInt", JsFunction("native")>>,
                    <<"JSON", JsObject([k \in {"stringify"} |-> JsFunction("stringify")])>>,
                    <<"Math", JsObject(EmptyObject)>>,
                    <<"undefined", JsUndefined>>,
                    <<"Map", JsFunction("native")>> >>, 1)

\* console_inject: globalThis.console = { log: function() {}, error: function() {} }
ConsoleShim ==
    JsObject([k \in {"log", "error"} |-> JsFunction("noop")])

\* BUILTINS of is_builtin_js_function
BUILTINS ==
    {"undefined", "NaN", "Math", "Reflect", "globalThis", "JSON", "Atomics",
     "performance", "Infinity", "Object", "Function", "Error", "EvalError",
     "RangeError", "ReferenceError", "SyntaxError", "TypeError", "URIError",
     "InternalError", "AggregateError", "Iterator", "Array", "parseInt",
     "parseFloat", "isNaN", "isFinite", "queueMicrotask", "decodeURI",
     "decodeURIComponent", "encodeURI", "encodeURIComponent", "escape",
     "unescape", "Number", "Boolean", "String", "Symbol", "eval", "Date",
     "RegExp", "Proxy", "Map", "Set", "WeakMap", "WeakSet", "ArrayBuffer",
     "SharedArrayBuffer", "Uint8ClampedArray", "Int8Array", "Uint8Array",
     "Int16Array", "Uint16Array", "Int32Array", "Uint32Array", "BigInt64Array",
     "BigUint64Array", "Float16Array", "Float32Array", "Float64Array",
     "DataView", "Promise", "BigInt", "WeakRef", "FinalizationRegistry",
     "DOMException"}

\* is_builtin_js_function with the deny-list never matching
is_builtin_never(name) == FALSE

is_builtin_js_function(name) == name \in BUILTINS

(***************************************************************************)
(* User scripts.  A statement is a function declaration (hoisted: bound     *)
(* when the script is instantiated), an assignment to a global, or a throw. *)
(* The bodies are the callables the model can run:                          *)
(*   first  function (x) { return x }                                       *)
(*   args   function () { return Array.from(arguments) }                    *)
(*   boom   function () { throw new Error("boom") }                         *)
(*   inc    function () { var c = counter; counter = c + 1; return c + 1 }  *)
(*   drop   function () { delete globalThis.first; return "dropped" }       *)
(*   rebind function () { boom = 7; extra = first; return "rebound" }       *)
(***************************************************************************)
FunctionDecl(name, body) == [op |-> "function", name |-> name, v |-> JsFunction(body)]

Assign(name, v) == [op |-> "assign", name |-> name, v |-> v]

Throw == [op |-> "throw", name |-> "", v |-> JsUndefined]

RECURSIVE Hoist(_, _, _)
Hoist(g, script, i) ==
    IF i > Len(script) THEN g
    ELSE Hoist(IF script[i].op = "function"
               THEN GlobalSet(g, script[i].name, script[i].v) ELSE g,
               script, i + 1)

RECURSIVE Exec(_, _, _)
Exec(g, script, i) ==
    IF i > Len(script) \/ script[i].op = "throw" THEN g
    ELSE Exec(IF script[i].op = "assign"
              THEN GlobalSet(g, script[i].name, script[i].v) ELSE g,
              script, i + 1)

\* ctx.eval(js_code): the globals the evaluation leaves, its error discarded
EvalScript(g, script) == Exec(Hoist(g, script, 1), script, 1)

\* the scan of the globals in load_js_helpers
Discover(g) ==
    SelectSeq(g.keys,
              LAMBDA key : /\ ~is_builtin_js_function(key)
                           /\ GlobalGet(g, key).t = "function")

\* load_js_helpers with the evaluation's error returned
load_js_helpers_strict(file, rt_ok, ctx_ok) ==
    IF ~file.readable THEN [ok |-> FALSE, err |-> "Failed to read JS: " \o file.path]
    ELSE IF ~rt_ok THEN [ok |-> FALSE, err |-> "QuickJS runtime init failed"]
    ELSE IF ~ctx_ok THEN [ok |-> FALSE, err |-> "QuickJS context init failed"]
    ELSE IF \E i \in 1..Len(file.code) : file.code[i].op = "throw"
    THEN [ok |-> FALSE, err |-> "JS context error: Exception"]
    ELSE LET g == EvalScript(GlobalSet(FullContext, "console", ConsoleShim), file.code)
         IN  [ok |-> TRUE, globals |-> g, names |-> Discover(g)]

\* load_js_helpers(js_path): file is what the path holds, rt_ok and ctx_ok
\* whether Runtime::new and JsContext::full succeed
load_js_helpers(file, rt_ok, ctx_ok) ==
    IF ~file.readable THEN [ok |-> FALSE, err |-> "Failed to read JS: " \o file.path]
    ELSE IF ~rt_ok THEN [ok |-> FALSE, err |-> "QuickJS runtime init failed"]
    ELSE IF ~ctx_ok THEN [ok |-> FALSE, err |-> "QuickJS context init failed"]
    ELSE LET g == EvalScript(GlobalSet(FullContext, "console", ConsoleShim), file.code)
         IN  [ok |-> TRUE, globals |-> g, names |-> Discover(g)]

(***************************************************************************)
(* Handlebars' helper table: name -> who registered the helper last.        *)
(***************************************************************************)
\* register_helper that keeps a helper already registered under the name
register_helper_keep(hb, name, by) ==
    [n \in DOMAIN hb \cup {name} |-> IF n \in DOMAIN hb THEN hb[n] ELSE by]

\* Handlebars::register_helper: an insert into the map of helpers, which
\* replaces the helper the name had
register_helper(hb, name, by) ==
    [n \in DOMAIN hb \cup {name} |-> IF n = name THEN by ELSE hb[n]]

RECURSIVE RegisterAll(_, _, _)
RegisterAll(hb, names, by) ==
    IF names = {} THEN hb
    ELSE LET n == CHOOSE x \in names : TRUE
         IN  RegisterAll(register_helper(hb, n, by), names \ {n}, by)

NoHelpers == [n \in {} |-> ""]

\* register_helpers(hb): the built-in helpers
BuiltinHelpers == {"tableRegex", "replaceRegex"}

register_helpers(hb) == RegisterAll(hb, BuiltinHelpers, "builtin")

Range(seq) == {seq[i] : i \in 1..Len(seq)}

\* register_with_handlebars that stops after the first name
register_with_handlebars_first(hb, runtime, names) ==
    IF runtime = "Some" /\ names # <<>> THEN register_helper(hb, names[1], "js") ELSE hb

\* register_with_handlebars(hb): one closure per discovered name, none
\* without a session
register_with_handlebars(hb, runtime, names) ==
    IF runtime = "Some" THEN RegisterAll(hb, Range(names), "js") ELSE hb

(***************************************************************************)
(* Native plugin libraries: whether Library::new opens the path, whether    *)
(* the library exports create_helpers, and the helpers its registrant adds. *)
(***************************************************************************)
Lib(path, opens, exports, helpers) ==
    [path |-> path, opens |-> opens, exports |-> exports, helpers |-> helpers]

\* load_rust_plugin with the missing export reported as a load failure
load_rust_plugin_generic(lib, hb, plugins) ==
    IF ~lib.opens \/ ~lib.exports
    THEN [ok |-> FALSE, err |-> "Failed to load: " \o lib.path, hb |-> hb,
          plugins |-> plugins, factory |-> FALSE]
    ELSE [ok |-> TRUE, err |-> "", hb |-> RegisterAll(hb, lib.helpers, "plugin"),
          plugins |-> Append(plugins, lib.path), factory |-> TRUE]

\* load_rust_plugin with the new library kept in place of the ones before it
load_rust_plugin_replacing(lib, hb, plugins) ==
    IF ~lib.opens
    THEN [ok |-> FALSE, err |-> "Failed to load: " \o lib.path, hb |-> hb,
          plugins |-> plugins, factory |-> FALSE]
    ELSE IF ~lib.exports
    THEN [ok |-> FALSE, err |-> "Missing 'create_helpers' export", hb |-> hb,
          plugins |-> plugins, factory |-> FALSE]
    ELSE [ok |-> TRUE, err |-> "", hb |-> RegisterAll(hb, lib.helpers, "plugin"),
          plugins |-> <<lib.path>>, factory |-> TRUE]

\* load_rust_plugin(lib_path, target_hb): the result, the helper table and
\* the retained libraries it leaves, and whether the factory ran
load_rust_plugin(lib, hb, plugins) ==
    IF ~lib.opens
    THEN [ok |-> FALSE, err |-> "Failed to load: " \o lib.path, hb |-> hb,
          plugins |-> plugins, factory |-> FALSE]
    ELSE IF ~lib.exports
    THEN [ok |-> FALSE, err |-> "Missing 'create_helpers' export", hb |-> hb,
          plugins |-> plugins, factory |-> FALSE]
    ELSE [ok |-> TRUE, err |-> "", hb |-> RegisterAll(hb, lib.helpers, "plugin"),
          plugins |-> Append(plugins, lib.path), factory |-> TRUE]

(***************************************************************************)
(* The helper closure of register_with_handlebars, in pieces.               *)
(***************************************************************************)
\* GetFunction that takes whatever value is bound to the name
GetFunctionLenient(g, js_name) ==
    LET v == GlobalGet(g, js_name)
    IN  IF v.t = "undefined"
        THEN [ok |-> FALSE,
              err |-> "Helper '" \o js_name \o "' not found: Error converting from js '"
                      \o v.t \o "' into type 'function'"]
        ELSE [ok |-> TRUE, func |-> IF v.t = "function" THEN v ELSE JsFunction("noop")]

\* ctx.globals().get::<Function>(js_name)
GetFunction(g, js_name) ==
    LET v == GlobalGet(g, js_name)
    IN  IF v.t = "function" THEN [ok |-> TRUE, func |-> v]
        ELSE [ok |-> FALSE,
              err |-> "Helper '" \o js_name \o "' not found: Error converting from js '"
                      \o v.t \o "' into type 'function'"]

\* ConvertParams with a failed parameter passed as undefined in its place
RECURSIVE ConvertParamsKeepSlot(_, _, _)
ConvertParamsKeepSlot(bad, params, i) ==
    IF i > Len(params) THEN <<>>
    ELSE LET r == serde_value_to_js(bad, params[i])
         IN  <<IF r.ok THEN r.v ELSE JsUndefined>> \o ConvertParamsKeepSlot(bad, params, i + 1)

\* the loop over h.params(): a parameter that fails to convert is not pushed
RECURSIVE ConvertParams(_, _, _)
ConvertParams(bad, params, i) ==
    IF i > Len(params) THEN <<>>
    ELSE LET r == serde_value_to_js(bad, params[i])
         IN  (IF r.ok THEN <<r.v>> ELSE <<>>) \o ConvertParams(bad, params, i + 1)

\* CallShape with the packed array passed alone, without the placeholder
CallShapeNoPlaceholder(js_args) ==
    IF Len(js_args) <= 6 THEN js_args
    ELSE <<JsArray([i \in 1..Len(js_args) |-> js_args[i]])>>

\* the match on js_args.len(): the arguments the function is called with
CallShape(js_args) ==
    IF Len(js_args) <= 6 THEN js_args
    ELSE <<JsUndefined, JsArray([i \in 1..Len(js_args) |-> js_args[i]])>>

\* what a function body returns or throws for the arguments it is called with
\* (inc, which reads and writes a global, is run in two steps by the actions)
CallBody(body, call_args) ==
    CASE body = "first" -> JsOk(IF Len(call_args) >= 1 THEN call_args[1] ELSE JsUndefined)
      [] body = "args" -> JsOk(JsArray(call_args))
      [] body = "boom" -> JsErr("Error: boom")
      [] body = "drop" -> JsOk(JsString("dropped"))
      [] body = "rebind" -> JsOk(JsString("rebound"))
      [] body = "stringify" ->
            JsOk(IF Len(call_args) >= 1 THEN JsonStringify(call_args[1]) ELSE JsUndefined)
      [] OTHER -> JsOk(JsUndefined)

\* what running a function body does to the globals
CallEffect(body, g) ==
    CASE body = "drop" -> GlobalDelete(g, "first")
      [] body = "rebind" ->
            GlobalSet(GlobalSet(g, "boom", JsInt(FALSE, 0, 7)), "extra", JsFunction("first"))
      [] OTHER -> g

\* HelperNamesAfterCall with the list taken anew from the globals
HelperNamesRescanned(names, g) ==
    SelectSeq(g.keys,
              LAMBDA key : /\ ~is_builtin_js_function(key)
                           /\ GlobalGet(g, key).t = "function")

\* the registry's list once a helper closure has run under the globals g:
\* the closure captured a clone of its name and the context, not the registry
HelperNamesAfterCall(names, g) == names

\* CoerceResult with the string arm missing: every result is serialized
CoerceResultNoPassThrough(g, js_result) ==
    IF ~js_result.ok
    THEN [ok |-> FALSE, err |-> "JS call failed: " \o js_result.err, ser |-> FALSE]
    ELSE IF Unserializable(js_result.v)
    THEN [ok |-> FALSE, err |-> "JSON.stringify returned non-string", ser |-> TRUE]
    ELSE [ok |-> TRUE, s |-> JsonText(js_result.v), ser |-> TRUE]

\* CoerceResult with a failed fallback taken for an empty string
CoerceResultLenient(g, js_result) ==
    IF ~js_result.ok
    THEN [ok |-> FALSE, err |-> "JS call failed: " \o js_result.err, ser |-> FALSE]
    ELSE IF js_result.v.t = "string"
    THEN [ok |-> TRUE, s |-> js_result.v.s, ser |-> FALSE]
    ELSE LET json_global == GlobalGet(g, "JSON")
             stringify == IF json_global.t = "object" /\ "stringify" \in DOMAIN json_global.o
                          THEN json_global.o["stringify"] ELSE JsUndefined
             json_val == IF stringify.t = "function"
                         THEN CallBody(stringify.body, <<js_result.v>>)
                         ELSE JsErr("")
         IN  IF json_val.ok /\ json_val.v.t = "string"
             THEN [ok |-> TRUE, s |-> json_val.v.s, ser |-> TRUE]
             ELSE [ok |-> TRUE, s |-> "", ser |-> stringify.t = "function"]

\* the match on js_result: the Result<String, String> of the closure passed
\* to ctx_guard.with; ser tells whether JSON.stringify was called
CoerceResult(g, js_result) ==
    IF ~js_result.ok
    THEN [ok |-> FALSE, err |-> "JS call failed: " \o js_result.err, ser |-> FALSE]
    ELSE IF js_result.v.t = "string"
    THEN [ok |-> TRUE, s |-> js_result.v.s, ser |-> FALSE]
    ELSE LET json_global == GlobalGet(g, "JSON")
             stringify == IF json_global.t = "object" /\ "stringify" \in DOMAIN json_global.o
                          THEN json_global.o["stringify"] ELSE JsUndefined
         IN  IF json_global.t \notin {"object", "array", "function"}
             THEN [ok |-> FALSE, err |-> "JSON global not found: " \o json_global.t,
                   ser |-> FALSE]
             ELSE IF stringify.t # "function"
             THEN [ok |-> FALSE, err |-> "JSON.stringify not found: " \o stringify.t,
                   ser |-> FALSE]
             ELSE LET json_val == CallBody(stringify.body, <<js_result.v>>)
                  IN  IF ~json_val.ok
                      THEN [ok |-> FALSE, err |-> "JSON.stringify failed: " \o json_val.err,
                            ser |-> TRUE]
                      ELSE IF json_val.v.t = "string"
                      THEN [ok |-> TRUE, s |-> json_val.v.s, ser |-> TRUE]
                      ELSE [ok |-> FALSE, err |-> "JSON.stringify returned non-string",
                            ser |-> TRUE]

\* HelperReturn with the error passed on without the helper's name
HelperReturnBare(js_name, call_result) ==
    IF call_result.ok THEN [ok |-> TRUE, err |-> ""]
    ELSE [ok |-> FALSE, err |-> call_result.err]

\* the match on call_result: what the helper returns to Handlebars
HelperReturn(js_name, call_result) ==
    IF call_result.ok THEN [ok |-> TRUE, err |-> ""]
    ELSE [ok |-> FALSE, err |-> "Helper '" \o js_name \o "': " \o call_result.err]

\* CanLock without the mutex: lock() that never waits
CanLockAlways(l) == TRUE

\* ctx_clone.lock(): the mutex is free
CanLock(l) == l = 0

\* Unlock with the guard leaked on the error path
UnlockIfOk(l, t, ok) == IF ok /\ l = t THEN 0 ELSE l

\* ctx_guard goes out of scope when the closure returns, whether call_result
\* is Ok or Err
Unlock(l, t, ok) == IF l = t THEN 0 ELSE l

(***************************************************************************)
(* generate_notes: file names and output.  A file name is the sequence of   *)
(* its characters.                                                          *)
(***************************************************************************)
\* the characters valid_filename replaces when paths are not allowed
UnsafeChars == {"<", ">", ":", "\"", "/", "\\", "|", "?", "*"}

\* valid_filename(name, false): every unsafe character becomes "_"
valid_filename(name) ==
    [i \in 1..Len(name) |-> IF name[i] \in UnsafeChars THEN "_" ELSE name[i]]

\* an item of the data: not an object, or an object whose json_name field is
\* a string or is missing
NotAnObject == [is_object |-> FALSE, named |-> FALSE, name |-> <<>>]

Named(name) == [is_object |-> TRUE, named |-> TRUE, name |-> name]

Unnamed == [is_object |-> TRUE, named |-> FALSE, name |-> <<>>]

\* generate_item_filename with no split configuration, a json_name that is a
\* field path, and empty note_prefix and note_suffix
generate_item_filename(it, idx) ==
    valid_filename(IF it.named THEN it.name ELSE <<"item_", ToString(idx)>>)

\* the position of the last dot that splits a file name into stem and
\* extension (0: none; a leading dot does not split)
LastDot(name) ==
    LET dots == {i \in 2..Len(name) : name[i] = "."}
    IN  IF dots = {} THEN 0 ELSE CHOOSE i \in dots : \A j \in dots : j <= i

\* Path::file_stem
file_stem(name) == IF LastDot(name) = 0 THEN name ELSE SubSeq(name, 1, LastDot(name) - 1)

\* Path::extension: <<>> for None, <<ext>> for Some(ext)
extension(name) ==
    IF LastDot(name) = 0 THEN <<>> ELSE <<SubSeq(name, LastDot(name) + 1, Len(name))>>

\* Path::with_extension / Path::set_extension on a path that has a file name
with_extension(name, ext) ==
    IF ext = <<>> THEN file_stem(name) ELSE file_stem(name) \o <<".">> \o ext

\* main.rs 557-564: the n-th candidate for base
Candidate(base, n) ==
    LET renamed == file_stem(base) \o <<ToString(n)>>
    IN  IF extension(base) = <<>> THEN renamed ELSE with_extension(renamed, extension(base)[1])

\* main.rs 553-556: the while loop, which leaves with the first path that
\* seen_names does not contain
FirstUnseen(seen, base) ==
    IF base \notin seen
    THEN base
    ELSE LET n == CHOOSE k \in 1..(Cardinality(seen) + 1) :
                     /\ Candidate(base, k) \notin seen
                     /\ \A j \in 1..(k - 1) : Candidate(base, j) \in seen
         IN  Candidate(base, n)

\* main.rs 549-566
ResolveCollision(unique_names, seen, path) ==
    IF unique_names \/ path \in seen THEN FirstUnseen(seen, path) ELSE path

\* the state of one generate_notes run: seen_names, single_file_content (the
\* bodies it holds), item_count, the fs::write calls of multi-file mode, and
\* the single output file (<<>> until it is written)
NoNotes ==
    [seen_names |-> {}, single_file_content |-> <<>>, item_count |-> 0,
     written |-> <<>>, output_file |-> <<>>]

\* main.rs 524-583: what process_item does with the rendered body of item idx
HandleOutput(n, mode, unique_names, item_filename, idx, body) ==
    IF mode = "single"
    THEN [n EXCEPT !.single_file_content = Append(@, [idx |-> idx, body |-> body]),
                   !.item_count = @ + 1]
    ELSE LET safe == valid_filename(item_filename)
             path == ResolveCollision(unique_names, n.seen_names, safe)
         IN  [n EXCEPT !.seen_names = @ \cup {path},
                       !.written = Append(@, [path |-> with_extension(path, <<"m", "d">>),
                                              idx |-> idx, body |-> body]),
                       !.item_count = @ + 1]

\* main.rs 615-636: the single output file, empty when no item was rendered
WriteSingleFile(n, mode) ==
    IF mode = "single" THEN [n EXCEPT !.output_file = <<n.single_file_content>>] ELSE n

(***************************************************************************)
(* State.                                                                   *)
(***************************************************************************)
VARIABLES
    env,              \* the run's inputs: CLI arguments, files, template, items
    mainPc,           \* where main is
    exitCause,        \* the step whose error main returned
    hb,               \* Handlebars' helper table
    js_runtime,       \* DynamicHelperRegistry.js_runtime: "None" or "Some"
    globals,          \* the global object of the session's context
    js_helper_names,  \* DynamicHelperRegistry.js_helper_names
    loaded_plugins,   \* DynamicHelperRegistry.loaded_plugins
    jsResult,         \* what load_js_helpers returned to main
    pluginResult,     \* what load_rust_plugin returned to main
    errlog,           \* main's error_log! lines
    factoryCalls,     \* times a plugin's create_helpers was invoked
    lock,             \* the session mutex: 0, or the thread that holds it
    th,               \* per rendering thread: the helper call it is in
    item,             \* items generate_notes has rendered
    notes,            \* generate_notes' seen_names, accumulated content and writes
    renderStarted,    \* a render operation has begun
    incs,             \* completed runs of the inc callable
    marsh             \* the value marshaller under test

vars == <<env, mainPc, exitCause, hb, js_runtime, globals, js_helper_names,
          loaded_plugins, jsResult, pluginResult, errlog, factoryCalls, lock,
          th, item, notes, renderStarted, incs, marsh>>

setupVars == <<hb, js_runtime, globals, js_helper_names, loaded_plugins,
               jsResult, pluginResult, errlog, factoryCalls>>

Threads == {1, 2}

\* MainOrder with the notes generated before the script helpers are registered
MainOrderRenderFirst ==
    <<"register_helpers", "load_js_helpers", "load_rust_plugin",
      "determine_output_strategy", "generate_notes", "register_with_handlebars">>

\* the order of main's steps
MainOrder ==
    <<"register_helpers", "load_js_helpers", "load_rust_plugin",
      "register_with_handlebars", "determine_output_strategy", "generate_notes">>

\* the step main goes to when `step` is over
After(step) ==
    LET i == CHOOSE j \in 1..Len(MainOrder) : MainOrder[j] = step
    IN  IF i = Len(MainOrder) THEN "exit_ok" ELSE MainOrder[i + 1]

\* OnLoadError with the error returned from main (a `?` on the load call)
OnLoadErrorAbort(step) == "exit_err"

\* main's Err(e) arms of the two load calls: log and go on
OnLoadError(step) == After(step)

Blank ==
    [pc |-> "idle", name |-> "", params |-> <<>>, bad |-> {}, func |-> JsUndefined,
     js_args |-> <<>>, call_args |-> <<>>, called |-> FALSE, c |-> 0,
     js_result |-> JsOk(JsUndefined), call_result |-> [ok |-> TRUE, s |-> "", ser |-> FALSE],
     out |-> <<>>, ret |-> [ok |-> TRUE, err |-> ""], n |-> 0, failed |-> FALSE]

NoResult == [st |-> "none", err |-> "", names |-> <<>>]

MarshIdle == [pc |-> "idle", v |-> GNull, bad |-> {}, native |-> JsOk(JsNull), back |-> GNull]

(***************************************************************************)
(* Inputs.                                                                  *)
(***************************************************************************)
\* parameters a template passes to a helper
ParamAt(i) ==
    CASE i = 1 -> GString("abc")
      [] i = 2 -> PosInt(0, 1)
      [] i = 3 -> GBool(TRUE)
      [] i = 4 -> GNull
      [] i = 5 -> GString("big")
      [] i = 6 -> GObject([k \in {"a"} |-> PosInt(0, 1)])
      [] i = 7 -> GArray(<<PosInt(0, 2), GString("big")>>)
      [] i = 8 -> Float(FALSE, 0, 2, 1)
      [] OTHER -> PosInt(0, i)

Params(n) == [i \in 1..n |-> ParamAt(i)]

HelperCall(name, params) == [name |-> name, params |-> params]

\* values the interpreter may fail to create during one call
BadChoices == {{}, {GString("big")}}

\* statements user scripts are made of
StmtPool ==
    {FunctionDecl("first", "first"),
     FunctionDecl("parseInt", "args"),
     FunctionDecl("inc", "inc"),
     Assign("boom", JsFunction("boom")),
     Assign("config", JsObject([k \in {"a"} |-> JsInt(FALSE, 0, 1)])),
     Throw}

Scripts == UNION {[1..n -> StmtPool] : n \in 0..MaxStmts}

JsGiven(readable, code) ==
    [given |-> TRUE, path |-> "helpers.js", readable |-> readable, code |-> code]

JsNotGiven == [given |-> FALSE, path |-> "", readable |-> FALSE, code |-> <<>>]

\* --js-helpers and what becomes of it: [js, rt_ok, ctx_ok]
JsInputs ==
    {<<JsNotGiven, TRUE, TRUE>>,
     <<JsGiven(FALSE, <<>>), TRUE, TRUE>>,
     <<JsGiven(TRUE, <<FunctionDecl("first", "first")>>), FALSE, TRUE>>,
     <<JsGiven(TRUE, <<FunctionDecl("first", "first")>>), TRUE, FALSE>>,
     <<JsGiven(TRUE, <<FunctionDecl("tableRegex", "first"), FunctionDecl("first", "first")>>),
       TRUE, TRUE>>}
    \cup {<<JsGiven(TRUE, code), TRUE, TRUE>> : code \in Scripts}

LibGiven(lib) == [given |-> TRUE, lib |-> lib]

LibNotGiven == [given |-> FALSE, lib |-> Lib("", FALSE, FALSE, {})]

\* --rs-plugin
LibInputs ==
    {LibNotGiven,
     LibGiven(Lib("absent.so", FALSE, FALSE, {})),
     LibGiven(Lib("other.so", TRUE, FALSE, {})),
     LibGiven(Lib("plugin.so", TRUE, TRUE, {"shout", "first", "replaceRegex"}))}

\* the helper call of the template
MainTemplates ==
    {HelperCall("first", Params(1)), HelperCall("boom", Params(0)),
     HelperCall("inc", Params(0)), HelperCall("tableRegex", Params(3))}

\* the output strategy and the data of a run with n items: one output file,
\* or one file per item where every item has the name "note" but the second,
\* whose name is empty
Output(mode, unique_names, data) ==
    [mode |-> mode, unique_names |-> unique_names, data |-> data]

OutputInputs(n) ==
    {Output("single", FALSE, [i \in 1..n |-> Unnamed]),
     Output("multi", TRUE,
            [i \in 1..n |-> IF i = 2 THEN Named(<<>>) ELSE Named(<<"n", "o", "t", "e">>)])}

(***************************************************************************)
(* main.                                                                    *)
(***************************************************************************)
Init ==
    /\ \E j \in JsInputs, l \in LibInputs, tpl \in MainTemplates, n \in 0..MaxCalls :
          \E o \in OutputInputs(n) :
             env = [js |-> j[1], rt_ok |-> j[2], ctx_ok |-> j[3], lib |-> l,
                    template |-> {tpl}, items |-> n, output |-> o]
    /\ mainPc = MainOrder[1]
    /\ exitCause = ""
    /\ hb = NoHelpers
    /\ js_runtime = "None"
    /\ globals = [keys |-> <<>>, val |-> EmptyObject]
    /\ js_helper_names = <<>>
    /\ loaded_plugins = <<>>
    /\ jsResult = NoResult
    /\ pluginResult = NoResult
    /\ errlog = <<>>
    /\ factoryCalls = 0
    /\ lock = 0
    /\ th = [t \in Threads |-> Blank]
    /\ item = 0
    /\ notes = NoNotes
    /\ renderStarted = FALSE
    /\ incs = 0
    /\ marsh = MarshIdle

\* main.rs 716-720
RegisterHelpers ==
    /\ mainPc = "register_helpers"
    /\ hb' = register_helpers(hb)
    /\ mainPc' = After("register_helpers")
    /\ UNCHANGED <<env, exitCause, js_runtime, globals, js_helper_names, loaded_plugins,
                   jsResult, pluginResult, errlog, factoryCalls, lock, th, item, notes,
                   renderStarted, incs, marsh>>

\* main.rs 725-736
LoadJsHelpers ==
    /\ mainPc = "load_js_helpers"
    /\ IF ~env.js.given
       THEN /\ mainPc' = After("load_js_helpers")
            /\ UNCHANGED <<js_runtime, globals, js_helper_names, jsResult, errlog>>
       ELSE LET r == load_js_helpers(env.js, env.rt_ok, env.ctx_ok)
            IN  IF r.ok
                THEN /\ js_runtime' = "Some"
                     /\ globals' = r.globals
                     /\ js_helper_names' = r.names
                     /\ jsResult' = [st |-> "ok", err |-> "", names |-> r.names]
                     /\ mainPc' = After("load_js_helpers")
                     /\ UNCHANGED errlog
                ELSE /\ jsResult' = [st |-> "err", err |-> r.err, names |-> <<>>]
                     /\ errlog' = Append(errlog, "Failed to load JS helpers: " \o r.err)
                     /\ mainPc' = OnLoadError("load_js_helpers")
                     /\ UNCHANGED <<js_runtime, globals, js_helper_names>>
    /\ UNCHANGED <<env, exitCause, hb, loaded_plugins, pluginResult, factoryCalls, lock,
                   th, item, notes, renderStarted, incs, marsh>>

\* main.rs 738-758
LoadRustPlugin ==
    /\ mainPc = "load_rust_plugin"
    /\ IF ~env.lib.given
       THEN /\ mainPc' = After("load_rust_plugin")
            /\ UNCHANGED <<hb, loaded_plugins, pluginResult, errlog, factoryCalls>>
       ELSE LET r == load_rust_plugin(env.lib.lib, hb, loaded_plugins)
            IN  /\ hb' = r.hb
                /\ loaded_plugins' = r.plugins
                /\ factoryCalls' = factoryCalls + (IF r.factory THEN 1 ELSE 0)
                /\ IF r.ok
                   THEN /\ pluginResult' = [st |-> "ok", err |-> "", names |-> <<>>]
                        /\ mainPc' = After("load_rust_plugin")
                        /\ UNCHANGED errlog
                   ELSE /\ pluginResult' = [st |-> "err", err |-> r.err, names |-> <<>>]
                        /\ errlog' = Append(errlog, "Failed to load Rust plugin: " \o r.err)
                        /\ mainPc' = OnLoadError("load_rust_plugin")
    /\ UNCHANGED <<env, exitCause, js_runtime, globals, js_helper_names, jsResult, lock,
                   th, item, notes, renderStarted, incs, marsh>>

\* main.rs 760-764
RegisterWithHandlebars ==
    /\ mainPc = "register_with_handlebars"
    /\ hb' = register_with_handlebars(hb, js_runtime, js_helper_names)
    /\ mainPc' = After("register_with_handlebars")
    /\ UNCHANGED <<env, exitCause, js_runtime, globals, js_helper_names, loaded_plugins,
                   jsResult, pluginResult, errlog, factoryCalls, lock, th, item, notes,
                   renderStarted, incs, marsh>>

\* main.rs 766-772: determine_output_strategy(..)?, whose directory creation
\* may fail
DetermineOutputStrategy ==
    /\ mainPc = "determine_output_strategy"
    /\ \E ok \in BOOLEAN :
          IF ok THEN /\ mainPc' = After("determine_output_strategy")
                     /\ UNCHANGED exitCause
          ELSE /\ mainPc' = "exit_err"
               /\ exitCause' = "determine_output_strategy"
    /\ UNCHANGED <<env, setupVars, lock, th, item, notes, renderStarted, incs, marsh>>

(***************************************************************************)
(* One helper call of a render, by thread t.                                *)
(***************************************************************************)
\* Handlebars enters the closure registered under call.name
Enter(t, call, bad) ==
    th' = [th EXCEPT ![t] = [Blank EXCEPT !.pc = "lock", !.name = call.name,
                                          !.params = call.params, !.bad = bad,
                                          !.n = th[t].n + 1,
                                          !.failed = th[t].failed]]

\* js_helpers.rs 138
Acquire(t) ==
    /\ th[t].pc = "lock"
    /\ CanLock(lock)
    /\ lock' = t
    /\ th' = [th EXCEPT ![t].pc = "lookup"]
    /\ UNCHANGED <<env, mainPc, exitCause, setupVars, item, notes, renderStarted, incs, marsh>>

\* js_helpers.rs 142-145
Lookup(t) ==
    /\ th[t].pc = "lookup"
    /\ LET r == GetFunction(globals, th[t].name)
       IN  th' = [th EXCEPT ![t] =
                    IF r.ok THEN [@ EXCEPT !.pc = "call", !.func = r.func]
                    ELSE [@ EXCEPT !.pc = "finish",
                                   !.call_result = [ok |-> FALSE, err |-> r.err,
                                                    ser |-> FALSE]]]
    /\ UNCHANGED <<env, mainPc, exitCause, setupVars, lock, item, notes, renderStarted, incs,
                   marsh>>

\* js_helpers.rs 147-207: convert the parameters and call the function; the
\* inc callable has read the counter and not yet written it back
Call(t) ==
    /\ th[t].pc = "call"
    /\ LET js_args == ConvertParams(th[t].bad, th[t].params, 1)
           call_args == CallShape(js_args)
           counter == GlobalGet(globals, "counter")
       IN  th' = [th EXCEPT ![t] =
                    IF th[t].func.body = "inc"
                    THEN [@ EXCEPT !.pc = "inc_write", !.js_args = js_args,
                                   !.call_args = call_args, !.called = TRUE,
                                   !.c = IF counter.t = "int" THEN counter.m ELSE 0]
                    ELSE [@ EXCEPT !.pc = "coerce", !.js_args = js_args,
                                   !.call_args = call_args, !.called = TRUE,
                                   !.js_result = CallBody(th[t].func.body, call_args)]]
    /\ globals' = CallEffect(th[t].func.body, globals)
    /\ js_helper_names' = HelperNamesAfterCall(js_helper_names, globals')
    /\ UNCHANGED <<env, mainPc, exitCause, hb, js_runtime, loaded_plugins, jsResult,
                   pluginResult, errlog, factoryCalls, lock, item, notes, renderStarted, incs,
                   marsh>>

\* the second half of the inc callable: counter = c + 1; return c + 1
IncWrite(t) ==
    /\ th[t].pc = "inc_write"
    /\ globals' = GlobalSet(globals, "counter", JsInt(FALSE, 0, th[t].c + 1))
    /\ incs' = incs + 1
    /\ th' = [th EXCEPT ![t].pc = "coerce",
                        ![t].js_result = JsOk(JsInt(FALSE, 0, th[t].c + 1))]
    /\ UNCHANGED <<env, mainPc, exitCause, hb, js_runtime, js_helper_names,
                   loaded_plugins, jsResult, pluginResult, errlog, factoryCalls, lock,
                   item, notes, renderStarted, marsh>>

\* js_helpers.rs 209-240
Coerce(t) ==
    /\ th[t].pc = "coerce"
    /\ th' = [th EXCEPT ![t].pc = "finish",
                        ![t].call_result = CoerceResult(globals, th[t].js_result)]
    /\ UNCHANGED <<env, mainPc, exitCause, setupVars, lock, item, notes, renderStarted, incs,
                   marsh>>

\* js_helpers.rs 243-257: write the output or build the render error, and
\* leave the closure
Finish(t) ==
    /\ th[t].pc = "finish"
    /\ th' = [th EXCEPT ![t].pc = "returned",
                        ![t].out = IF th[t].call_result.ok
                                   THEN Append(th[t].out, th[t].call_result.s)
                                   ELSE th[t].out,
                        ![t].ret = HelperReturn(th[t].name, th[t].call_result),
                        ![t].failed = th[t].failed \/ ~th[t].call_result.ok]
    /\ lock' = Unlock(lock, t, th[t].call_result.ok)
    /\ UNCHANGED <<env, mainPc, exitCause, setupVars, item, notes, renderStarted, incs, marsh>>

HelperStep(t) ==
    \/ Acquire(t)
    \/ Lookup(t)
    \/ Call(t)
    \/ IncWrite(t)
    \/ Coerce(t)
    \/ Finish(t)

(***************************************************************************)
(* generate_notes, on main's thread.                                        *)
(***************************************************************************)
MainThread == 1

\* the item process_item is called with next, and its index
ItemAt(idx) == env.output.data[idx + 1]

\* main.rs 479-504: item_filename; in single-file mode the same name, used
\* as a placeholder for the template context only
ItemFilename(idx) == generate_item_filename(ItemAt(idx), idx)

\* main.rs 465-467, 511-518: process_item returns Ok(()) before rendering
Skipped(idx) ==
    \/ ~ItemAt(idx).is_object
    \/ env.output.mode = "multi" /\ ItemFilename(idx) = <<>>

\* main.rs 464-518: an item that is not rendered
SkipItem ==
    /\ mainPc = "generate_notes"
    /\ item < env.items
    /\ th[MainThread].pc = "idle"
    /\ Skipped(item)
    /\ item' = item + 1
    /\ UNCHANGED <<env, mainPc, exitCause, setupVars, lock, th, notes, renderStarted, incs,
                   marsh>>

\* main.rs 521: hb.render("tpl", &ctx) reaches the template's helper call
RenderItem ==
    /\ mainPc = "generate_notes"
    /\ item < env.items
    /\ th[MainThread].pc = "idle"
    /\ ~Skipped(item)
    /\ renderStarted' = TRUE
    /\ \E call \in env.template, bad \in BadChoices :
          IF call.name \notin DOMAIN hb
          THEN th' = [th EXCEPT ![MainThread] =
                        [Blank EXCEPT !.pc = "returned", !.name = call.name,
                                      !.n = th[MainThread].n + 1, !.failed = TRUE,
                                      !.ret = [ok |-> FALSE, err |-> "Helper not defined"]]]
          ELSE IF hb[call.name] = "js"
          THEN Enter(MainThread, call, bad)
          ELSE th' = [th EXCEPT ![MainThread] =
                        [Blank EXCEPT !.pc = "returned", !.name = call.name,
                                      !.n = th[MainThread].n + 1,
                                      !.out = <<hb[call.name]>>]]
    /\ UNCHANGED <<env, mainPc, exitCause, setupVars, lock, item, notes, incs, marsh>>

\* main.rs 521-613, 786: the render's result.  The body is accumulated or
\* written; an error is returned with `?` by process_item, by generate_notes
\* and by main
ItemReturn ==
    /\ mainPc = "generate_notes"
    /\ th[MainThread].pc = "returned"
    /\ th' = [th EXCEPT ![MainThread].pc = "idle"]
    /\ IF th[MainThread].ret.ok
       THEN /\ item' = item + 1
            /\ notes' = HandleOutput(notes, env.output.mode, env.output.unique_names,
                                     ItemFilename(item), item, th[MainThread].out)
            /\ UNCHANGED <<mainPc, exitCause>>
       ELSE /\ mainPc' = "exit_err"
            /\ exitCause' = "generate_notes"
            /\ UNCHANGED <<item, notes>>
    /\ UNCHANGED <<env, setupVars, lock, renderStarted, incs, marsh>>

\* main.rs 615-639, 788-793: the loop is over; the single output file is
\* written
GenerateDone ==
    /\ mainPc = "generate_notes"
    /\ item = env.items
    /\ th[MainThread].pc = "idle"
    /\ notes' = WriteSingleFile(notes, env.output.mode)
    /\ mainPc' = After("generate_notes")
    /\ UNCHANGED <<env, exitCause, setupVars, lock, th, item, renderStarted, incs, marsh>>

Next ==
    \/ RegisterHelpers
    \/ LoadJsHelpers
    \/ LoadRustPlugin
    \/ RegisterWithHandlebars
    \/ DetermineOutputStrategy
    \/ SkipItem
    \/ RenderItem
    \/ HelperStep(MainThread)
    \/ ItemReturn
    \/ GenerateDone

Spec == Init /\ [][Next]_vars

(***************************************************************************)
(* The registered closures called by a templating capability that renders   *)
(* on one thread (SpecInvoke) or on several (SpecConc), after main's setup  *)
(* with the helper script below.                                            *)
(***************************************************************************)
HelperScript ==
    <<FunctionDecl("first", "first"), FunctionDecl("args", "args"),
      Assign("boom", JsFunction("boom")), Assign("counter", JsInt(FALSE, 0, 0)),
      FunctionDecl("inc", "inc"), FunctionDecl("drop", "drop"),
      FunctionDecl("rebind", "rebind"),
      Assign("config", JsObject([k \in {"a"} |-> JsInt(FALSE, 0, 1)]))>>

HelperNames == {"first", "args", "boom", "inc", "drop", "rebind"}

\* helper calls with 0..MaxArgs parameters, and with each single parameter
RichCalls ==
    {HelperCall(name, Params(n)) : name \in HelperNames, n \in 0..MaxArgs}
    \cup {HelperCall(name, <<ParamAt(i)>>) : name \in {"first", "args"}, i \in 1..8}

ConcCalls ==
    {HelperCall("inc", Params(0)), HelperCall("boom", Params(1)),
     HelperCall("first", Params(1))}

AfterSetup(template) ==
    LET js == JsGiven(TRUE, HelperScript)
        r == load_js_helpers(js, TRUE, TRUE)
    IN  /\ env = [js |-> js, rt_ok |-> TRUE, ctx_ok |-> TRUE, lib |-> LibNotGiven,
                  template |-> template, items |-> 0]
        /\ mainPc = "generate_notes"
        /\ exitCause = ""
        /\ hb = register_with_handlebars(register_helpers(NoHelpers), "Some", r.names)
        /\ js_runtime = "Some"
        /\ globals = r.globals
        /\ js_helper_names = r.names
        /\ loaded_plugins = <<>>
        /\ jsResult = [st |-> "ok", err |-> "", names |-> r.names]
        /\ pluginResult = NoResult
        /\ errlog = <<>>
        /\ factoryCalls = 0
        /\ lock = 0
        /\ th = [t \in Threads |-> Blank]
        /\ item = 0
        /\ notes = NoNotes
        /\ renderStarted = FALSE
        /\ incs = 0
        /\ marsh = MarshIdle

\* a render on thread t reaches a helper call of the template
HostCall(t) ==
    /\ th[t].pc = "idle"
    /\ th[t].n < MaxCalls
    /\ renderStarted' = TRUE
    /\ \E call \in env.template, bad \in BadChoices :
          /\ call.name \in DOMAIN hb
          /\ hb[call.name] = "js"
          /\ Enter(t, call, bad)
    /\ UNCHANGED <<env, mainPc, exitCause, setupVars, lock, item, notes, incs, marsh>>

\* the render takes the helper's result
HostReturn(t) ==
    /\ th[t].pc = "returned"
    /\ th' = [th EXCEPT ![t] = [Blank EXCEPT !.n = th[t].n, !.failed = th[t].failed]]
    /\ UNCHANGED <<env, mainPc, exitCause, setupVars, lock, item, notes, renderStarted, incs,
                   marsh>>

InitInvoke == AfterSetup(RichCalls)

NextInvoke ==
    \/ HostCall(MainThread)
    \/ HelperStep(MainThread)
    \/ HostReturn(MainThread)

SpecInvoke == InitInvoke /\ [][NextInvoke]_vars

InitConc == AfterSetup(ConcCalls)

NextConc ==
    \E t \in Threads :
        \/ HostCall(t)
        \/ HelperStep(t)
        \/ HostReturn(t)

SpecConc == InitConc /\ [][NextConc]_vars


(***************************************************************************)
(* generate_notes alone, after main's setup with the helper script: every   *)
(* output strategy, and data whose items have equal names, names that       *)
(* differ after their last dot, unsafe or empty names, or are no objects.   *)
(***************************************************************************)
ItemPool ==
    {Named(<<"a">>), Named(<<"a", ".", "b">>), Named(<<"a", "1">>), Named(<<"a", ":">>),
     Named(<<>>), NotAnObject}

DataInputs == UNION {[1..n -> ItemPool] : n \in 1..MaxItems}

NotesOutputs ==
    {Output("single", FALSE, d) : d \in DataInputs}
    \cup {Output("multi", u, d) : u \in BOOLEAN, d \in DataInputs}

\* the template's helper call: two that return and one that throws
NotesCalls ==
    {HelperCall("first", Params(1)), HelperCall("inc", Params(0)),
     HelperCall("boom", Params(0))}

InitNotes ==
    LET js == JsGiven(TRUE, HelperScript)
        r == load_js_helpers(js, TRUE, TRUE)
    IN  /\ \E o \in NotesOutputs :
              env = [js |-> js, rt_ok |-> TRUE, ctx_ok |-> TRUE, lib |-> LibNotGiven,
                     template |-> NotesCalls, items |-> Len(o.data), output |-> o]
        /\ mainPc = "generate_notes"
        /\ exitCause = ""
        /\ hb = register_with_handlebars(register_helpers(NoHelpers), "Some", r.names)
        /\ js_runtime = "Some"
        /\ globals = r.globals
        /\ js_helper_names = r.names
        /\ loaded_plugins = <<>>
        /\ jsResult = [st |-> "ok", err |-> "", names |-> r.names]
        /\ pluginResult = NoResult
        /\ errlog = <<>>
        /\ factoryCalls = 0
        /\ lock = 0
        /\ th = [t \in Threads |-> Blank]
        /\ item = 0
        /\ notes = NoNotes
        /\ renderStarted = FALSE
        /\ incs = 0
        /\ marsh = MarshIdle

NextNotes ==
    \/ SkipItem
    \/ RenderItem
    \/ HelperStep(MainThread)
    \/ ItemReturn
    \/ GenerateDone

SpecNotes == InitNotes /\ [][NextNotes]_vars

(***************************************************************************)
(* A registry whose load_rust_plugin is called several times, with renders  *)
(* of plugin helpers in between.                                            *)
(***************************************************************************)
\* the libraries a host may ask for
HostLibs ==
    {Lib("absent.so", FALSE, FALSE, {}),
     Lib("other.so", TRUE, FALSE, {}),
     Lib("plugin.so", TRUE, TRUE, {"shout", "first"}),
     Lib("second.so", TRUE, TRUE, {"shout", "whisper"})}

InitLoads ==
    /\ env = [js |-> JsNotGiven, rt_ok |-> TRUE, ctx_ok |-> TRUE, lib |-> LibNotGiven,
              template |-> {HelperCall("shout", Params(1)), HelperCall("whisper", Params(0)),
                            HelperCall("tableRegex", Params(3))},
              items |-> MaxCalls]
    /\ mainPc = "load_rust_plugin"
    /\ exitCause = ""
    /\ hb = register_helpers(NoHelpers)
    /\ js_runtime = "None"
    /\ globals = [keys |-> <<>>, val |-> EmptyObject]
    /\ js_helper_names = <<>>
    /\ loaded_plugins = <<>>
    /\ jsResult = NoResult
    /\ pluginResult = NoResult
    /\ errlog = <<>>
    /\ factoryCalls = 0
    /\ lock = 0
    /\ th = [t \in Threads |-> Blank]
    /\ item = 0
    /\ notes = NoNotes
    /\ renderStarted = FALSE
    /\ incs = 0
    /\ marsh = MarshIdle

\* one more call of load_rust_plugin(lib_path, &mut hb) on the same registry
HostLoad ==
    /\ Len(loaded_plugins) + Len(errlog) < MaxLoads
    /\ \E lib \in HostLibs :
          LET r == load_rust_plugin(lib, hb, loaded_plugins)
          IN  /\ env' = [env EXCEPT !.lib = LibGiven(lib)]
              /\ hb' = r.hb
              /\ loaded_plugins' = r.plugins
              /\ factoryCalls' = factoryCalls + (IF r.factory THEN 1 ELSE 0)
              /\ IF r.ok
                 THEN /\ pluginResult' = [st |-> "ok", err |-> "", names |-> <<>>]
                      /\ UNCHANGED errlog
                 ELSE /\ pluginResult' = [st |-> "err", err |-> r.err, names |-> <<>>]
                      /\ errlog' = Append(errlog, "Failed to load Rust plugin: " \o r.err)
    /\ UNCHANGED <<mainPc, exitCause, js_runtime, globals, js_helper_names, jsResult, lock,
                   th, item, notes, renderStarted, incs, marsh>>

\* a render that calls a registered helper: a plugin helper runs code of its
\* library
HostRender ==
    /\ item < env.items
    /\ \E call \in env.template :
          /\ call.name \in DOMAIN hb
          /\ th' = [th EXCEPT ![MainThread] =
                      [Blank EXCEPT !.pc = "returned", !.name = call.name,
                                    !.n = th[MainThread].n + 1,
                                    !.out = <<hb[call.name]>>]]
    /\ item' = item + 1
    /\ renderStarted' = TRUE
    /\ UNCHANGED <<env, mainPc, exitCause, setupVars, lock, notes, incs, marsh>>

NextLoads ==
    \/ HostLoad
    \/ HostRender

SpecLoads == InitLoads /\ [][NextLoads]_vars

(***************************************************************************)
(* The result coercion of the closure on its own: what the function         *)
(* returned, and the JSON global a script may have left behind.             *)
(***************************************************************************)
\* the globals of a session whose script did this to JSON
JsonStates ==
    {FullContext,
     GlobalDelete(FullContext, "JSON"),
     GlobalSet(FullContext, "JSON", JsInt(FALSE, 0, 1)),
     GlobalSet(FullContext, "JSON", JsObject(EmptyObject)),
     GlobalSet(FullContext, "JSON", JsFunction("noop")),
     GlobalSet(FullContext, "JSON", JsObject([k \in {"stringify"} |-> JsInt(FALSE, 0, 1)])),
     GlobalSet(FullContext, "JSON", JsObject([k \in {"stringify"} |-> JsFunction("boom")])),
     GlobalSet(FullContext, "JSON", JsObject([k \in {"stringify"} |-> JsFunction("noop")]))}

\* what js_func.call(..).catch(&ctx) may hand to the coercion
CallResults ==
    {JsErr("Error: boom")}
    \cup {JsOk(v) : v \in {JsString("abc"), JsString(""), JsUndefined, JsNull, JsBool(TRUE),
                           JsInt(FALSE, 0, 7), JsInt(TRUE, 0, 1), JsFloat(FALSE, 0, 2, 1),
                           JsFunction("first"), JsArray(<<>>),
                           JsArray(<<JsHole, JsInt(FALSE, 0, 2)>>),
                           JsObject([k \in {"a"} |-> JsInt(FALSE, 0, 1)]),
                           JsObject([k \in {"a"} |-> JsUndefined])}}

InitCoerce ==
    /\ \E g \in JsonStates, r \in CallResults :
          /\ globals = g
          /\ th = [t \in Threads |->
                     IF t = MainThread
                     THEN [Blank EXCEPT !.pc = "coerce", !.name = "first", !.n = 1,
                                        !.func = JsFunction("first"), !.called = TRUE,
                                        !.js_result = r]
                     ELSE Blank]
    /\ env = [js |-> JsNotGiven, rt_ok |-> TRUE, ctx_ok |-> TRUE, lib |-> LibNotGiven,
              template |-> {}, items |-> 0]
    /\ mainPc = "generate_notes"
    /\ exitCause = ""
    /\ hb = register_with_handlebars(register_helpers(NoHelpers), "Some", <<"first">>)
    /\ js_runtime = "Some"
    /\ js_helper_names = <<"first">>
    /\ loaded_plugins = <<>>
    /\ jsResult = [st |-> "ok", err |-> "", names |-> <<"first">>]
    /\ pluginResult = NoResult
    /\ errlog = <<>>
    /\ factoryCalls = 0
    /\ lock = MainThread
    /\ item = 0
    /\ notes = NoNotes
    /\ renderStarted = TRUE
    /\ incs = 0
    /\ marsh = MarshIdle

NextCoerce ==
    \/ Coerce(MainThread)
    \/ Finish(MainThread)

SpecCoerce == InitCoerce /\ [][NextCoerce]_vars

(***************************************************************************)
(* The value marshaller on its own.                                         *)
(***************************************************************************)
Leaves ==
    {GNull, GBool(TRUE), GBool(FALSE), GString("abc"), GString("big"),
     PosInt(0, 0), PosInt(0, 7), PosInt(1, -1), PosInt(1, 0), PosInt(1, 1),
     PosInt(1, 2048), PosInt(1, 3072), NegInt(0, 1), NegInt(1, 0),
     Float(FALSE, 0, 2, 1), Float(TRUE, 0, 0, 1), Float(FALSE, 1, 0, 0)}

Elems ==
    {GNull, GBool(TRUE), GString("abc"), GString("big"), PosInt(0, 7), PosInt(1, 1),
     GArray(<<GString("big")>>), GObject([k \in {"a"} |-> PosInt(0, 7)])}

KeySets == {ks \in SUBSET Range(KeyOrder) : Cardinality(ks) <= MaxLen}

MarshalValues ==
    Leaves
    \cup {GArray(a) : a \in UNION {[1..n -> Elems] : n \in 0..MaxLen}}
    \cup {GObject(o) : o \in UNION {[ks -> Elems] : ks \in KeySets}}

InitMarshal ==
    /\ \E v \in MarshalValues, bad \in BadChoices :
          marsh = [MarshIdle EXCEPT !.pc = "value", !.v = v, !.bad = bad]
    /\ env = [js |-> JsNotGiven, rt_ok |-> TRUE, ctx_ok |-> TRUE, lib |-> LibNotGiven,
              template |-> {}, items |-> 0]
    /\ mainPc = "marshal"
    /\ exitCause = ""
    /\ hb = NoHelpers
    /\ js_runtime = "None"
    /\ globals = [keys |-> <<>>, val |-> EmptyObject]
    /\ js_helper_names = <<>>
    /\ loaded_plugins = <<>>
    /\ jsResult = NoResult
    /\ pluginResult = NoResult
    /\ errlog = <<>>
    /\ factoryCalls = 0
    /\ lock = 0
    /\ th = [t \in Threads |-> Blank]
    /\ item = 0
    /\ notes = NoNotes
    /\ renderStarted = FALSE
    /\ incs = 0

\* serde_value_to_js(ctx, val)
ToNative ==
    /\ marsh.pc = "value"
    /\ marsh' = [marsh EXCEPT !.pc = "native",
                              !.native = serde_value_to_js(marsh.bad, marsh.v)]
    /\ UNCHANGED <<env, mainPc, exitCause, setupVars, lock, th, item, notes, renderStarted, incs>>

\* to_generic of the native value
ToGeneric ==
    /\ marsh.pc = "native"
    /\ marsh.native.ok
    /\ marsh' = [marsh EXCEPT !.pc = "generic", !.back = to_generic(marsh.native.v)]
    /\ UNCHANGED <<env, mainPc, exitCause, setupVars, lock, th, item, notes, renderStarted, incs>>

NextMarshal ==
    \/ ToNative
    \/ ToGeneric

SpecMarshal == InitMarshal /\ [][NextMarshal]_vars

(***************************************************************************)
(* Claims.                                                                  *)
(***************************************************************************)
\* where a thread is between taking the session lock and leaving the closure
InsidePcs == {"lookup", "call", "inc_write", "coerce", "finish"}

Inside == {t \in Threads : th[t].pc \in InsidePcs}

\* C1: with helper calls on several threads against one session, at most one
\* is inside the interpreter context at a time, it holds the session lock
\* from before the lookup until the result is coerced, and the global counter
\* of a read-then-increment callable equals the completed runs (no update lost).
C1_OneInsideInterpreter ==
    /\ Cardinality(Inside) <= 1
    /\ \A t \in Inside : lock = t
    /\ GlobalGet(globals, "counter") = JsInt(FALSE, 0, incs)

\* one thread is between the read and the write of the counter while the
\* other waits for the lock to run the same callable
C1_Witness ==
    \E t, u \in Threads :
        /\ t # u
        /\ th[t].pc = "inc_write"
        /\ th[u].pc = "lock"
        /\ th[u].name = "inc"
        /\ incs >= 1

\* C2: when n arguments reach the call, the function is called with exactly
\* those n arguments in order for n <= 6, and for n >= 7 with two arguments:
\* undefined, then one array holding all n in order.
C2_ArityDispatch ==
    \A t \in Threads :
        th[t].called =>
            LET a == th[t].js_args
                c == th[t].call_args
            IN  /\ IF Len(a) <= 6 THEN c = a
                   ELSE /\ Len(c) = 2
                        /\ c[1] = JsUndefined
                        /\ c[2] = JsArray(a)
                /\ (th[t].func.body = "args" /\ th[t].pc \in {"coerce", "finish", "returned"})
                      => th[t].js_result = JsOk(JsArray(c))

\* a callable that returns its arguments, called with seven, reports an
\* undefined first argument and the seven packed in an array
C2_Witness ==
    /\ th[MainThread].pc = "returned"
    /\ th[MainThread].name = "args"
    /\ th[MainThread].params = Params(7)
    /\ th[MainThread].bad = {}
    /\ th[MainThread].out = <<"[null,[\"abc\",1,true,null,\"big\",{\"a\":1},[2,\"big\"]]]">>

\* C3: the list load_js_helpers returns holds, once each, exactly the own
\* string keys of the global object that are not deny-listed and whose value
\* is callable: a function declared under a deny-listed name is left out,
\* every other declared function is in, the console shim is not.
C3_DiscoveryExact ==
    (jsResult.st = "ok" /\ ~renderStarted) =>
        LET names == jsResult.names
            callable == {k \in DOMAIN globals.val : globals.val[k].t = "function"}
        IN  /\ Range(names) = callable \ BUILTINS
            /\ Cardinality(Range(names)) = Len(names)
            /\ js_helper_names = names
            /\ "console" \in DOMAIN globals.val
            /\ "console" \notin Range(names)
            /\ \A i \in 1..Len(env.js.code) :
                  env.js.code[i].op = "function" =>
                      (env.js.code[i].name \in Range(names)
                          <=> env.js.code[i].name \notin BUILTINS)

\* a script that declares a function named parseInt and one named first
\* yields first alone
C3_Witness ==
    /\ jsResult.st = "ok"
    /\ env.js.code = <<FunctionDecl("parseInt", "args"), FunctionDecl("first", "first")>>
    /\ jsResult.names = <<"first">>

\* JSON.stringify is the interpreter's own serializer
StringifyFound(g) ==
    /\ GlobalGet(g, "JSON").t = "object"
    /\ "stringify" \in DOMAIN GlobalGet(g, "JSON").o
    /\ GlobalGet(g, "JSON").o["stringify"] = JsFunction("stringify")

C5_ThrowIsError ==
    \A t \in Threads :
        (th[t].pc = "returned" /\ th[t].called /\ ~th[t].js_result.ok) =>
            /\ ~th[t].ret.ok
            /\ th[t].ret.err =
                  "Helper '" \o th[t].name \o "': JS call failed: " \o th[t].js_result.err
            /\ th[t].out = <<>>
            /\ lock # t

\* the callable boom has thrown and the helper has returned its error
C5_Witness ==
    /\ th[MainThread].pc = "returned"
    /\ th[MainThread].name = "boom"
    /\ th[MainThread].ret = [ok |-> FALSE, err |-> "Helper 'boom': JS call failed: Error: boom"]

\* C6: load_rust_plugin on a library that opens but lacks create_helpers
\* fails with the missing-export error, which no other failure produces (a
\* library that cannot be opened fails with the load error), and a failed
\* load never invoked the factory.
C6_MissingExportDistinct ==
    pluginResult.st = "err" =>
        /\ factoryCalls = 0
        /\ loaded_plugins = <<>>
        /\ (pluginResult.err = "Missing 'create_helpers' export")
              <=> (env.lib.lib.opens /\ ~env.lib.lib.exports)
        /\ (pluginResult.err = "Failed to load: " \o env.lib.lib.path)
              <=> ~env.lib.lib.opens

\* the library opened, the export was missing, and main went on
C6_Witness ==
    /\ env.lib.lib.opens
    /\ pluginResult = [st |-> "err", err |-> "Missing 'create_helpers' export",
                       names |-> <<>>]
    /\ factoryCalls = 0
    /\ mainPc = "generate_notes"

\* C7: to_generic(to_native(v)) = v for every value whose conversion cannot
\* fail.
C7_RoundTrip ==
    (marsh.pc = "generic" /\ marsh.bad = {}) => marsh.back = marsh.v

\* every helper the setup was to bind is in Handlebars' table
AllBound ==
    /\ BuiltinHelpers \subseteq DOMAIN hb
    /\ pluginResult.st = "ok" => env.lib.lib.helpers \subseteq DOMAIN hb
    /\ js_runtime = "Some" =>
          \A n \in Range(js_helper_names) : n \in DOMAIN hb /\ hb[n] = "js"

\* C8: when the first render operation starts, main is past every binding
\* step and the built-in, plugin and script helpers are registered; no helper
\* is registered once rendering has begun.
C8_SetupPrecedesRendering ==
    /\ [](renderStarted => (mainPc \in {"generate_notes", "exit_ok", "exit_err"} /\ AllBound))
    /\ [][renderStarted => hb' = hb]_vars

\* a render has started with a plugin helper and a script helper registered
C8_Witness ==
    /\ renderStarted
    /\ pluginResult.st = "ok"
    /\ \E n \in DOMAIN hb : hb[n] = "js"
    /\ \E n \in DOMAIN hb : hb[n] = "plugin"

HelpersBy(by) == {n \in DOMAIN hb : hb[n] = by}

\* C9: a failed load_js_helpers or load_rust_plugin is logged and does not
\* end main, which goes on to register and to generate_notes; the failed
\* source has no helper registered, the built-in helpers and the helpers of
\* the other source are registered.
C9_LoadFailureDegrades ==
    /\ jsResult.st = "err" =>
          /\ "Failed to load JS helpers: " \o jsResult.err \in Range(errlog)
          /\ HelpersBy("js") = {}
          /\ js_runtime = "None"
    /\ pluginResult.st = "err" =>
          /\ "Failed to load Rust plugin: " \o pluginResult.err \in Range(errlog)
          /\ HelpersBy("plugin") = {}
    /\ mainPc = "exit_err" => exitCause \in {"determine_output_strategy", "generate_notes"}
    /\ ((jsResult.st = "err" \/ pluginResult.st = "err")
           /\ mainPc \in {"determine_output_strategy", "generate_notes", "exit_ok"}) =>
          /\ BuiltinHelpers \subseteq DOMAIN hb
          /\ pluginResult.st = "ok" => HelpersBy("plugin") = env.lib.lib.helpers
          /\ jsResult.st = "ok" => HelpersBy("js") = Range(js_helper_names)

\* both loads failed and generate_notes has rendered an item with a
\* built-in helper
C9_Witness ==
    /\ jsResult.st = "err"
    /\ pluginResult.st = "err"
    /\ mainPc = "generate_notes"
    /\ item >= 1
    /\ hb = register_helpers(NoHelpers)

\* C10: a helper call that ended in an error has released the session lock
\* and left the discovered names and the registered helpers as the setup
\* made them, so that the lock is free for the next call.
C10_ErrorLeavesHostIntact ==
    /\ \A t \in Threads : th[t].pc \in {"idle", "lock", "returned"} => lock # t
    /\ Inside = {} => lock = 0
    /\ js_helper_names = jsResult.names
    /\ hb = register_with_handlebars(register_helpers(NoHelpers), "Some", jsResult.names)

\* after a call that found its helper gone from the globals, a call of a
\* helper that is still there has succeeded
C10_Witness ==
    /\ th[MainThread].failed
    /\ "first" \notin DOMAIN globals.val
    /\ th[MainThread].pc = "returned"
    /\ th[MainThread].name = "args"
    /\ th[MainThread].ret.ok
    /\ lock = 0

\* C11: a library load_rust_plugin has opened and taken helpers from stays
\* in the registry: no later load, failed or not, and no render removes or
\* replaces a retained handle, and every run of a factory has its library
\* retained.
C11_HandlesRetained ==
    /\ [][/\ Len(loaded_plugins') >= Len(loaded_plugins)
          /\ \A i \in 1..Len(loaded_plugins) : loaded_plugins'[i] = loaded_plugins[i]]_vars
    /\ [](factoryCalls = Len(loaded_plugins))

\* plugin.so was loaded, then a load failed and second.so was loaded, and a
\* helper has been rendered since: plugin.so is still the first handle
C11_Witness ==
    /\ loaded_plugins = <<"plugin.so", "second.so">>
    /\ Len(errlog) = 1
    /\ item >= 1
    /\ th[MainThread].out = <<"plugin">>

\* the parameters whose conversion succeeds, in their order
Converts(bad, p) == serde_value_to_js(bad, p).ok

\* C12: a parameter whose conversion fails is dropped and the call goes on:
\* the function is called with the converted values of exactly the other
\* parameters, in their order, in the shape their number selects.
C12_FailedArgDropped ==
    \A t \in Threads :
        th[t].called =>
            LET kept == SelectSeq(th[t].params, LAMBDA p : Converts(th[t].bad, p))
                natives == [i \in 1..Len(kept) |-> serde_value_to_js(th[t].bad, kept[i]).v]
            IN  /\ th[t].js_args = natives
                /\ Len(natives) <= 6 => th[t].call_args = natives
                /\ Len(natives) >= 7 => th[t].call_args = <<JsUndefined, JsArray(natives)>>

\* seven parameters of which the fifth fails to convert: the callable that
\* returns its arguments was called with the other six, positionally
C12_Witness ==
    /\ th[MainThread].pc = "returned"
    /\ th[MainThread].name = "args"
    /\ th[MainThread].params = Params(7)
    /\ th[MainThread].bad = {GString("big")}
    /\ Len(th[MainThread].call_args) = 6
    /\ th[MainThread].out = <<"[\"abc\",1,true,null,{\"a\":1},[2]]">>

\* C13: when a helper is given at least one parameter and the conversion of
\* every one fails, the function is not called and the helper returns an
\* error tagged with its name.
C13_ExhaustionIsError ==
    \A t \in Threads :
        (/\ Len(th[t].params) >= 1
         /\ \A i \in 1..Len(th[t].params) : ~Converts(th[t].bad, th[t].params[i])) =>
            /\ ~th[t].called
            /\ th[t].pc = "returned" => (~th[t].ret.ok /\ th[t].out = <<>>)

\* C14: a helper whose name is, when it is called, missing from the globals
\* or bound to a value that is not a function calls nothing and returns an
\* error that names the helper; only a name bound to a function is called.
C14_MissingNameIsError ==
    \A t \in Threads :
        LET v == GlobalGet(globals, th[t].name)
            notFound == "Helper '" \o th[t].name \o "' not found: Error converting from js '"
                        \o v.t \o "' into type 'function'"
        IN  /\ th[t].pc = "call" => (v.t = "function" /\ th[t].func = v)
            /\ (th[t].pc \in {"finish", "returned"} /\ ~th[t].called) =>
                  /\ v.t # "function"
                  /\ th[t].call_result = [ok |-> FALSE, err |-> notFound, ser |-> FALSE]
                  /\ th[t].js_args = <<>>
            /\ (th[t].pc = "returned" /\ ~th[t].called) =>
                  /\ th[t].ret = [ok |-> FALSE,
                                  err |-> "Helper '" \o th[t].name \o "': " \o notFound]
                  /\ th[t].out = <<>>

\* an earlier call has bound boom to a number and added a function; the
\* helper boom, called since, returned the error and called nothing
C14_Witness ==
    /\ GlobalGet(globals, "boom") = JsInt(FALSE, 0, 7)
    /\ GlobalGet(globals, "extra").t = "function"
    /\ th[MainThread].pc = "returned"
    /\ th[MainThread].name = "boom"
    /\ ~th[MainThread].called
    /\ th[MainThread].ret.err =
          "Helper 'boom': Helper 'boom' not found: Error converting from js 'int' into type 'function'"

\* how the serialization fallback ends for the value v under the globals g
FallbackOutcome(g, v) ==
    LET j == GlobalGet(g, "JSON")
        f == IF j.t = "object" /\ "stringify" \in DOMAIN j.o THEN j.o["stringify"]
             ELSE JsUndefined
    IN  IF j.t \notin {"object", "array", "function"} THEN "json missing"
        ELSE IF f.t # "function" THEN "stringify missing"
        ELSE IF f.body = "boom" THEN "stringify throws"
        ELSE IF f.body = "stringify" /\ ~Unserializable(v) THEN "string"
        ELSE "non-string"

\* C15: when the function returned a value that is no string, each way the
\* fallback fails (no JSON global, no stringify in it, stringify throws,
\* stringify returns no string) is an error that tells the cause, tagged with
\* the helper's name, and nothing is written; a string is returned only when
\* stringify produced one.
C15_FallbackFailureIsError ==
    \A t \in Threads :
        (/\ th[t].pc \in {"finish", "returned"}
         /\ th[t].called
         /\ th[t].js_result.ok
         /\ th[t].js_result.v.t # "string") =>
            LET o == FallbackOutcome(globals, th[t].js_result.v)
                r == th[t].call_result
            IN  /\ r.ok <=> o = "string"
                /\ o = "json missing" => r.err = "JSON global not found: "
                                                  \o GlobalGet(globals, "JSON").t
                /\ o = "stringify missing" => \E k \in {"undefined", "int"} :
                                                  r.err = "JSON.stringify not found: " \o k
                /\ o = "stringify throws" => r.err = "JSON.stringify failed: Error: boom"
                /\ o = "non-string" => r.err = "JSON.stringify returned non-string"
                /\ (th[t].pc = "returned" /\ o # "string") =>
                      /\ th[t].ret = [ok |-> FALSE,
                                      err |-> "Helper '" \o th[t].name \o "': " \o r.err]
                      /\ th[t].out = <<>>

\* the function returned {a: 1} in a session whose JSON has no stringify, and
\* the helper has returned the error
C15_Witness ==
    /\ th[MainThread].pc = "returned"
    /\ th[MainThread].js_result = JsOk(JsObject([k \in {"a"} |-> JsInt(FALSE, 0, 1)]))
    /\ GlobalGet(globals, "JSON") = JsObject(EmptyObject)
    /\ th[MainThread].ret = [ok |-> FALSE,
                             err |-> "Helper 'first': JSON.stringify not found: undefined"]
    /\ th[MainThread].out = <<>>

\* the statements of a script that run before its first throw
BeforeThrow(code) ==
    {i \in 1..Len(code) : \A j \in 1..i : code[j].op # "throw"}

\* C16: a script whose evaluation throws does not fail load_js_helpers: with
\* the file read and the runtime and context made, the result is Ok, the
\* session is stored, and the list holds every function the script bound
\* under a name off the deny-list before the throw.
C16_EvalErrorSwallowed ==
    (jsResult.st # "none" /\ env.js.readable /\ env.rt_ok /\ env.ctx_ok) =>
        /\ jsResult.st = "ok"
        /\ js_runtime = "Some"
        /\ js_helper_names = jsResult.names
        /\ \A i \in BeforeThrow(env.js.code) :
              (env.js.code[i].v.t = "function" /\ env.js.code[i].name \notin BUILTINS)
                  => env.js.code[i].name \in Range(jsResult.names)

\* a script that assigns a function to boom and then throws was loaded with
\* boom discovered
C16_Witness ==
    /\ env.js.code = <<Assign("boom", JsFunction("boom")), Throw>>
    /\ jsResult = [st |-> "ok", err |-> "", names |-> <<"boom">>]
    /\ js_runtime = "Some"
    /\ mainPc = "generate_notes"
    /\ "boom" \in DOMAIN hb

\* C17: the list of discovered names is the one load_js_helpers returned and
\* the script helpers are the ones registered from it; no helper call changes
\* either, whatever its function does to the globals.
C17_DiscoveredSetFixed ==
    /\ [](/\ js_helper_names = jsResult.names
          /\ HelpersBy("js") = Range(jsResult.names))
    /\ [][js_helper_names' = js_helper_names /\ hb' = hb]_vars

\* calls have deleted first from the globals, bound boom to a number and
\* added the function extra: the list and the helpers are as discovered
C17_Witness ==
    /\ "first" \notin DOMAIN globals.val
    /\ GlobalGet(globals, "boom").t = "int"
    /\ GlobalGet(globals, "extra").t = "function"
    /\ th[MainThread].pc = "returned"
    /\ js_helper_names = <<"first", "args", "inc", "drop", "rebind", "boom">>
    /\ HelpersBy("js") = {"first", "args", "inc", "drop", "rebind", "boom"}

\* C18: to_native maps a scalar by its tag: Null to null, a Bool to that
\* bool, a String to the string of the same content, an integer Number (the
\* unsigned ones above i64::MAX included) to the integer of the same value,
\* and a Number that is not integral to the float of the same value.
C18_ScalarMapping ==
    (marsh.pc \in {"native", "generic"} /\ marsh.bad = {}) =>
        LET v == marsh.v
            n == marsh.native
        IN  /\ v.g = "Null" => n = JsOk(JsNull)
            /\ v.g = "Bool" => n = JsOk(JsBool(v.b))
            /\ v.g = "String" => n = JsOk(JsString(v.s))
            /\ (v.g = "Number" /\ v.k \in {"PosInt", "NegInt"}) =>
                  n = JsOk(JsInt(v.neg, v.e, v.m))
            /\ (v.g = "Number" /\ v.k = "Float" /\ v.h # 0) =>
                  n = JsOk(JsFloat(v.neg, v.e, v.m, v.h))

\* C19: to_native of an Array never fails because of an element, and its
\* result holds exactly the elements whose conversion succeeded, in their
\* order: its length is the input's less the number of failed elements.
C19_ArraySkipCompacts ==
    (marsh.pc \in {"native", "generic"} /\ marsh.v.g = "Array" /\ marsh.v \notin marsh.bad) =>
        LET kept == SelectSeq(marsh.v.a, LAMBDA x : Converts(marsh.bad, x))
            natives == [i \in 1..Len(kept) |-> serde_value_to_js(marsh.bad, kept[i]).v]
        IN  /\ marsh.native.ok
            /\ marsh.native.v.t = "array"
            /\ Len(marsh.native.v.a) = Len(kept)
            /\ marsh.native.v.a = natives

\* C20: once register_with_handlebars has run, the script helpers are one
\* per discovered name, and none without a session; a script helper that has
\* returned wrote the result string, once, when the call succeeded, and wrote
\* nothing and returned an error tagged with its name when it failed.
C20_RegisteredAndWritten ==
    /\ mainPc \in {"register_helpers", "load_js_helpers", "load_rust_plugin",
                   "register_with_handlebars"} => HelpersBy("js") = {}
    /\ mainPc \in {"determine_output_strategy", "generate_notes", "exit_ok", "exit_err"} =>
          HelpersBy("js") = IF js_runtime = "Some" THEN Range(js_helper_names) ELSE {}
    /\ \A t \in Threads :
          (/\ th[t].pc = "returned"
           /\ th[t].name \in DOMAIN hb
           /\ hb[th[t].name] = "js") =>
              IF th[t].call_result.ok
              THEN /\ th[t].ret.ok
                   /\ th[t].out = <<th[t].call_result.s>>
              ELSE /\ th[t].out = <<>>
                   /\ th[t].ret = [ok |-> FALSE,
                                   err |-> "Helper '" \o th[t].name \o "': "
                                           \o th[t].call_result.err]

\* two names were discovered and registered, and the helper first, given
\* "abc", has written abc
C20_Witness ==
    /\ js_helper_names = <<"first", "inc">>
    /\ HelpersBy("js") = {"first", "inc"}
    /\ th[MainThread].pc = "returned"
    /\ th[MainThread].name = "first"
    /\ th[MainThread].called
    /\ th[MainThread].out = <<"abc">>

\* C21: a render failure aborts only the current render operation.  When
\* main has ended after generate_notes ran, every item has been processed,
\* the ones after a failed render included, and in single-file mode the output
\* file has been written with the bodies rendered before and after the failure;
\* in multi-file mode the files written before the failure are still there.
C21_RenderFailureLocal ==
    (mainPc \in {"exit_ok", "exit_err"} /\ exitCause \in {"", "generate_notes"}) =>
        /\ item = env.items
        /\ env.output.mode = "single" => notes.output_file = <<notes.single_file_content>>
        /\ env.output.mode = "multi" => Len(notes.written) = notes.item_count

\* the helpers main has bound when it is at `step`
BoundBuiltin == mainPc \in {"load_js_helpers", "load_rust_plugin"}

BoundPlugin == mainPc = "register_with_handlebars"

BoundScript ==
    mainPc \in {"determine_output_strategy", "generate_notes", "exit_ok", "exit_err"}

PluginHelpers == IF pluginResult.st = "ok" THEN env.lib.lib.helpers ELSE {}

ScriptHelpers == IF js_runtime = "Some" THEN Range(js_helper_names) ELSE {}

\* C22: helpers are bound in the order built-in, plugin, script, and a later
\* registration under a name replaces the earlier one: after each of main's
\* registration steps every name belongs to the last source that registered
\* it, and a render of a name that a discovered script callable bears calls
\* the script callable, whether or not a built-in or a plugin helper has the
\* name.
C22_LaterRegistrationWins ==
    /\ BoundBuiltin => hb = [n \in BuiltinHelpers |-> "builtin"]
    /\ BoundPlugin =>
          hb = [n \in BuiltinHelpers \cup PluginHelpers |->
                   IF n \in PluginHelpers THEN "plugin" ELSE "builtin"]
    /\ BoundScript =>
          hb = [n \in BuiltinHelpers \cup PluginHelpers \cup ScriptHelpers |->
                   IF n \in ScriptHelpers THEN "js"
                   ELSE IF n \in PluginHelpers THEN "plugin" ELSE "builtin"]
    /\ (th[MainThread].pc = "returned" /\ th[MainThread].name \in ScriptHelpers) =>
          /\ th[MainThread].called
          /\ th[MainThread].func = GlobalGet(globals, th[MainThread].name)
          /\ "builtin" \notin Range(th[MainThread].out)
          /\ "plugin" \notin Range(th[MainThread].out)

\* a script callable named as the built-in tableRegex and one named as the
\* plugin's helper first are registered last, the plugin has replaced the
\* built-in replaceRegex, and the render of tableRegex has run the script's
\* function
C22_Witness ==
    /\ mainPc = "generate_notes"
    /\ pluginResult.st = "ok"
    /\ {"tableRegex", "first"} \subseteq ScriptHelpers
    /\ hb["tableRegex"] = "js" /\ hb["first"] = "js" /\ hb["replaceRegex"] = "plugin"
    /\ th[MainThread].pc = "returned"
    /\ th[MainThread].name = "tableRegex"
    /\ th[MainThread].called
    /\ th[MainThread].out = <<"abc">>

\* C23: in multi-file mode no two items of one generate_notes run are
\* written to the same path: every fs::write of the run has a path distinct
\* from the paths written before it, whatever the items' names are.
C23_NoOverwrite ==
    \A i, j \in 1..Len(notes.written) :
        i < j => notes.written[i].path # notes.written[j].path

=============================================================================
